---- MODULE Spec2Model ----
(***************************************************************************)
(* Lexer, Parser (token buffer) and ExpressionSyntax builder of            *)
(* phoenix-script, src/src/build.rs.                                       *)
(*                                                                         *)
(* A text is a sequence of characters; a character is named by a string.   *)
(* Rust's String is UTF-8: text.len() and the slice text[a..b] count       *)
(* bytes, text.chars().nth(i) counts characters.  The model keeps both.    *)
(***************************************************************************)
EXTENDS Integers, Sequences, FiniteSets, TLC

(* ---------------------------------------------------------------- bounds *)
\* longest text of the exhaustive input family
MaxLen == 2
\* most whitespace characters between two parts of a shaped input
MaxGap == 1
\* most direct Lexer::next_token calls of one run
MaxCalls == 5
\* largest small offset handed to Parser::peek (the largest usize is added)
MaxOffset == 2
\* most Parser::parse calls on one Parser
MaxParseCalls == 2
\* width of isize in the model (the reference target has 64)
IsizeBits == 5
\* width of usize in the model (the reference target has 64)
UsizeBits == 8

IsizeMax == 2^(IsizeBits - 1) - 1
IsizeMin == -(2^(IsizeBits - 1))
UsizeMax == 2^UsizeBits - 1

(* ------------------------------------------------------------ characters *)
NUL == "NUL"      \* U+0000
NBSP == "NBSP"    \* U+00A0 NO-BREAK SPACE, White_Space, two bytes in UTF-8
EACUTE == "e'"    \* U+00E9, a letter, two bytes in UTF-8
SUPER2 == "^2"    \* U+00B2 SUPERSCRIPT TWO, numeric (No), two bytes in UTF-8

AsciiWhitespace == {" "}
\* the decimal digits (char::to_digit(10) of str::parse)
Digits == {"0", "1", "9"}
OperatorChars == {"+", "-", "*", "/"}
ParenChars == {"(", ")"}
AsciiOther == {"#", "%"}
Alphabet ==
    AsciiWhitespace \cup Digits \cup OperatorChars \cup ParenChars
        \cup AsciiOther \cup {NUL, NBSP, EACUTE, SUPER2}

\* char::len_utf8
Utf8Len(c) == IF c \in {NBSP, EACUTE, SUPER2} THEN 2 ELSE 1

\* char::is_whitespace (Unicode White_Space)
is_whitespace(c) == c \in AsciiWhitespace \cup {NBSP}

\* char::is_numeric (Unicode Nd, Nl, No)
is_numeric(c) == c \in Digits \cup {SUPER2}

DigitValue(c) == CASE c = "0" -> 0 [] c = "1" -> 1 [] c = "9" -> 9 [] OTHER -> 0

(* --------------------------------------------------------------- strings *)
RECURSIVE ByteLen(_)
\* String::len: the length in bytes
ByteLen(s) == IF s = << >> THEN 0 ELSE Utf8Len(Head(s)) + ByteLen(Tail(s))

\* byte offset of the character with (1-based) index i
ByteOffset(s, i) == ByteLen(SubSeq(s, 1, i - 1))

\* str::is_char_boundary
is_char_boundary(s, b) ==
    \/ b = ByteLen(s)
    \/ \E i \in 1..Len(s) : ByteOffset(s, i) = b

\* whether &s[from..to] panics (byte index out of range or inside a character)
SlicePanics(s, from, to) ==
    \/ from > to
    \/ to > ByteLen(s)
    \/ ~is_char_boundary(s, from)
    \/ ~is_char_boundary(s, to)

\* &s[from..to]: the characters whose bytes lie in from..to-1
Slice(s, from, to) ==
    LET first == CHOOSE i \in 1..(Len(s) + 1) : ByteOffset(s, i) = from
        last == CHOOSE i \in 0..Len(s) : ByteOffset(s, i + 1) = to
    IN  SubSeq(s, first, last)

(* ------------------------------------------------- Result<isize, ...> *)
Ok(n) == [tag |-> "Ok", val |-> n, err |-> "none"]
Err(e) == [tag |-> "Err", val |-> 0, err |-> e]
\* the payload slot of a token type that carries none
NoValue == [tag |-> "None", val |-> 0, err |-> "none"]

RECURSIVE ParseDigits(_, _, _)
\* ParseDigits with the multiplication by the radix left out
ParseDigits_NoRadix(s, acc, sign) ==
    IF s = << >> THEN Ok(acc)
    ELSE IF Head(s) \notin Digits THEN Err("InvalidDigit")
    ELSE LET next == acc + sign * DigitValue(Head(s))
         IN  IF next > IsizeMax THEN Err("PosOverflow")
             ELSE IF next < IsizeMin THEN Err("NegOverflow")
             ELSE ParseDigits(Tail(s), next, sign)

\* the digit loop of from_str_radix with checked_mul / checked_add (or
\* checked_sub for a negative number)
ParseDigits(s, acc, sign) ==
    IF s = << >> THEN Ok(acc)
    ELSE IF Head(s) \notin Digits THEN Err("InvalidDigit")
    ELSE LET next == acc * 10 + sign * DigitValue(Head(s))
         IN  IF next > IsizeMax THEN Err("PosOverflow")
             ELSE IF next < IsizeMin THEN Err("NegOverflow")
             ELSE ParseDigits(Tail(s), next, sign)

\* str::parse::<isize>: an optional sign, then one or more digits
ParseIsize(s) ==
    IF s = << >> THEN Err("Empty")
    ELSE IF Head(s) \in {"+", "-"}
         THEN IF Len(s) = 1 THEN Err("InvalidDigit")
              ELSE ParseDigits(Tail(s), 0, IF Head(s) = "-" THEN -1 ELSE 1)
         ELSE ParseDigits(s, 0, 1)

(* ---------------------------------------------------------------- tokens *)
\* struct SyntaxToken; value is the payload of SyntaxTokenType::Number
SyntaxToken(text, token_type, value) ==
    [text |-> text, token_type |-> token_type, value |-> value]

BadTokenInit == SyntaxToken(<< >>, "BadToken", NoValue)
EndOfFileToken == SyntaxToken(<< >>, "EndOfFile", NoValue)

(* ----------------------------------------------------------------- Lexer *)
\* the marker for the panic of Option::unwrap on None
UnwrapNone == "unwrap(None)"

\* Lexer::current
LexerCurrent(text, position) ==
    IF position >= ByteLen(text) THEN NUL
    ELSE IF position < Len(text) THEN text[position + 1]
    ELSE UnwrapNone

RECURSIVE ScanRun(_, _, _)
\* while self.current().is_xxx() { self.position += 1; }  with class the
\* characters the test accepts; the loop ends at a panic of current()
ScanRun(text, position, class) ==
    LET c == LexerCurrent(text, position)
    IN  IF c = UnwrapNone THEN [position |-> position, panic |-> "unwrap_none"]
        ELSE IF c \in class THEN ScanRun(text, position + 1, class)
        ELSE [position |-> position, panic |-> "none"]

WhitespaceChars == {c \in Alphabet : is_whitespace(c)}
NumericChars == {c \in Alphabet : is_numeric(c)}

\* the whitespace and the number branch of next_token: the run, then the slice
RunToken(text, start, class, kind) ==
    LET run == ScanRun(text, start, class)
        end == run.position
    IN  IF run.panic # "none"
        THEN [position |-> end, token |-> BadTokenInit, set |-> FALSE,
              panic |-> run.panic]
        ELSE IF SlicePanics(text, start, end)
        THEN [position |-> end, token |-> BadTokenInit, set |-> FALSE,
              panic |-> "str_slice"]
        ELSE LET t == Slice(text, start, end)
             IN  [position |-> end,
                  token |-> SyntaxToken(t, kind,
                               IF kind = "Number" THEN ParseIsize(t) ELSE NoValue),
                  set |-> TRUE, panic |-> "none"]

\* the match of next_token on one character
SingleToken(c) ==
    CASE c = "+" -> SyntaxToken(<<"+">>, "Plus", NoValue)
      [] c = "-" -> SyntaxToken(<<"-">>, "Minus", NoValue)
      [] c = "*" -> SyntaxToken(<<"*">>, "Star", NoValue)
      [] c = "/" -> SyntaxToken(<<"/">>, "Slash", NoValue)
      [] c = "(" -> SyntaxToken(<<"(">>, "OpenParenthesis", NoValue)
      [] c = ")" -> SyntaxToken(<<")">>, "CloseParenthesis", NoValue)
      [] c = NUL -> SyntaxToken(<< >>, "EndOfFile", NoValue)
      [] OTHER -> SyntaxToken(<< >>, "BadToken", NoValue)

\* Lexer::next_token from cursor `position`: the cursor after the call, the
\* token written to the slot (set = FALSE: the slot is left as it was) and
\* the panic that ended the call, if any
NextTokenResult(text, position) ==
    LET c == LexerCurrent(text, position)
    IN  IF c = UnwrapNone
        THEN [position |-> position, token |-> BadTokenInit, set |-> FALSE,
              panic |-> "unwrap_none"]
        ELSE IF is_whitespace(c)
        THEN RunToken(text, position, WhitespaceChars, "WhiteSpace")
        ELSE IF is_numeric(c)
        THEN RunToken(text, position, NumericChars, "Number")
        ELSE [position |-> position + 1, token |-> SingleToken(c), set |-> TRUE,
              panic |-> "none"]

(* ---------------------------------------------------------------- Parser *)
\* the branch of the loop of Parser::parse on the token just lexed
ParseBranch(token) ==
    IF token.token_type \in {"WhiteSpace", "BadToken"} THEN "continue"
    ELSE IF token.token_type = "EndOfFile" THEN "break"
    ELSE "push"

\* usize addition: the sum, or the overflow a debug build panics on and a
\* release build wraps
UsizeAdd(a, b) ==
    IF a + b > UsizeMax
    THEN {[panic |-> "add_overflow", val |-> 0],
          [panic |-> "none", val |-> (a + b) % (UsizeMax + 1)]}
    ELSE {[panic |-> "none", val |-> a + b]}

\* PeekAt with the range test off by one: the last token is never returned
PeekAt_OffByOne(tokens, index) ==
    IF index + 1 >= Len(tokens) THEN EndOfFileToken ELSE tokens[index + 1]

\* Parser::peek on index = position + offset
PeekAt(tokens, index) ==
    IF index >= Len(tokens) THEN EndOfFileToken ELSE tokens[index + 1]

(* ------------------------------------------------------ ExpressionSyntax *)
NumberOperand(n) == [kind |-> "Number", val |-> n]

\* the ExpressionSyntax value build() constructs
ExpressionInit ==
    [position |-> 0, left |-> NumberOperand(0), operator_token |-> "Plus",
     right |-> NumberOperand(0)]

\* parser.tokens.iter().position(|x| x.text == "("), 0-based, -1 for None
OpenParenPosition(tokens) ==
    IF \E i \in 1..Len(tokens) : tokens[i].text = <<"(">>
    THEN (CHOOSE i \in 1..Len(tokens) :
              /\ tokens[i].text = <<"(">>
              /\ \A j \in 1..(i - 1) : tokens[j].text # <<"(">>) - 1
    ELSE -1

IsNumberToken(t) == t.token_type = "Number"

\* the filter_map of the left operand: the payloads of the Number tokens
NumberValues(tokens) ==
    LET numbers == SelectSeq(tokens, IsNumberToken)
    IN  [i \in 1..Len(numbers) |-> numbers[i].value]

\* the match on the operator text; "none" is the panic arm
OperatorOf(text) ==
    CASE text = <<"+">> -> "Plus"
      [] text = <<"-">> -> "Minus"
      [] text = <<"*">> -> "Star"
      [] text = <<"/">> -> "Slash"
      [] OTHER -> "none"

\* lines 243-252: the right operand, read at the advanced position
RightStep(e, tokens) ==
    IF e.position >= Len(tokens) THEN [expr |-> e, panic |-> "index_oob"]
    ELSE LET t == tokens[e.position + 1]
         IN  IF t.token_type # "Number"
             THEN [expr |-> e, panic |-> "invalid_number"]
             ELSE IF t.value.tag # "Ok"
             THEN [expr |-> e, panic |-> "parse_number"]
             ELSE [expr |-> [e EXCEPT !.right = NumberOperand(t.value.val)],
                   panic |-> "none"]

\* lines 229-241: the operator, read at self.position, then position += 1
OperatorStep(e, tokens) ==
    IF e.position >= Len(tokens) THEN [expr |-> e, panic |-> "index_oob"]
    ELSE LET o == OperatorOf(tokens[e.position + 1].text)
         IN  IF o = "none" THEN [expr |-> e, panic |-> "invalid_operator"]
             ELSE RightStep([e EXCEPT !.operator_token = o,
                                      !.position = e.position + 1], tokens)

\* lines 214-227: the left operand, the Number token whose ordinal among the
\* Number tokens is self.position; without one the step does nothing
LeftStep(e, tokens) ==
    LET values == NumberValues(tokens)
    IN  IF e.position < Len(values)
        THEN LET value == values[e.position + 1]
                 moved == [e EXCEPT !.position = e.position + 2]
             IN  IF value.tag # "Ok" THEN [expr |-> moved, panic |-> "parse_number"]
                 ELSE OperatorStep([moved EXCEPT !.left = NumberOperand(value.val)],
                                   tokens)
        ELSE OperatorStep(e, tokens)

\* ExpressionSyntax::parse: the expression after the call and the panic that
\* ended it, if any
ExpressionParseResult(e, tokens) ==
    LET open == OpenParenPosition(tokens)
    IN  IF open < 0 THEN [expr |-> e, panic |-> "no_open_paren"]
        ELSE LeftStep([e EXCEPT !.position = open], tokens)

(* ---------------------------------------------------------------- inputs *)
SeqsUpTo(S, n) == UNION {[1..k -> S] : k \in 0..n}

\* every text of at most MaxLen characters
ShortTexts == SeqsUpTo(Alphabet, MaxLen)

\* digit runs used as operands: in range (one and two digits), out of range
Operands == {<<"1">>, <<"1", "0">>, <<"9", "9">>}
\* the character between the operands: an operator or an unrecognized one
Middles == OperatorChars \cup {"%", EACUTE}
Gaps == SeqsUpTo(WhitespaceChars, MaxGap)
\* where the whitespace stands (1: after '(', 2: after the left operand,
\* 3: after the middle character, 4: after the right operand)
GapPlaces == {{}, {1}, {2}, {3}, {4}, {1, 2, 3, 4}}

\* '(' a m b ')' with the whitespace g at the places P
ShapeText(a, m, b, g, P) ==
    LET G(i) == IF i \in P THEN g ELSE << >>
    IN  <<"(">> \o G(1) \o a \o G(2) \o <<m>> \o G(3) \o b \o G(4) \o <<")">>

ShapeTexts ==
    {ShapeText(a, m, b, g, P) :
        a \in Operands, m \in Middles, b \in Operands, g \in Gaps, P \in GapPlaces}

PlainShapes ==
    {ShapeText(a, m, b, << >>, {}) : a \in Operands, m \in Middles, b \in Operands}

\* the plain shapes cut short, and with one more character in front or behind
Prefixes(t) == {SubSeq(t, 1, k) : k \in 1..Len(t)}
TruncatedTexts == UNION {Prefixes(t) : t \in PlainShapes}
AffixChars == {"(", ")", "1", "+"}
AffixedTexts ==
    {<<c>> \o t : c \in AffixChars, t \in PlainShapes}
        \cup {t \o <<c>> : c \in AffixChars, t \in PlainShapes}

\* a two-byte character in front, so that character and byte indices differ,
\* and U+0000 behind
ShiftedTexts ==
    {<<EACUTE>> \o t \o <<NUL>> : t \in SeqsUpTo({"+", "1", " ", "("}, MaxLen)}

\* a m b without the parentheses
BareTexts == {a \o <<m>> \o b : a \in Operands, m \in Middles, b \in Operands}

Texts ==
    ShortTexts \cup ShapeTexts \cup TruncatedTexts \cup AffixedTexts
        \cup ShiftedTexts \cup BareTexts

(* ----------------------------------------------------------------- state *)
VARIABLES
    text,            \* Lexer.text
    lexer_position,  \* Lexer.position
    syntax_token,    \* Lexer.syntax_token, the current-token slot
    position,        \* Parser.position
    tokens,          \* Parser.tokens, the token buffer
    expression,      \* the ExpressionSyntax of build()
    pc,              \* where the run is: "init", "lexer" (next_token called
                     \* directly), "parse" (in the loop of Parser::parse),
                     \* "parsed", "done", "panic"
    panic,           \* the panic that aborted the run, "none" without one
    op,              \* the operation that acted last
    ret,             \* the offset and the token of the last peek / current
    calls,           \* direct next_token calls so far
    parse_calls,     \* Parser::parse calls so far
    lexed            \* the completed next_token calls, in order: the cursor
                     \* before and after the call and the token it left

vars ==
    <<text, lexer_position, syntax_token, position, tokens, expression, pc,
      panic, op, ret, calls, parse_calls, lexed>>

NoRet == [offset |-> -1, token |-> BadTokenInit]

\* build(), lines 272-290: the Parser and the ExpressionSyntax as constructed
Init ==
    /\ text \in Texts
    /\ lexer_position = 0
    /\ syntax_token = BadTokenInit
    /\ position = 0
    /\ tokens = << >>
    /\ expression = ExpressionInit
    /\ pc = "init"
    /\ panic = "none"
    /\ op = "none"
    /\ ret = NoRet
    /\ calls = 0
    /\ parse_calls = 0
    /\ lexed = << >>

\* the effect of one Lexer::next_token call on the lexer and on the record
\* of calls
LexerStep(r) ==
    /\ lexer_position' = r.position
    /\ syntax_token' = IF r.set THEN r.token ELSE syntax_token
    /\ lexed' = IF r.panic = "none"
                THEN Append(lexed, [start |-> lexer_position, end |-> r.position,
                                    token |-> r.token])
                ELSE lexed

\* Lexer::next_token, called directly
next_token ==
    /\ pc \in {"init", "lexer"}
    /\ calls < MaxCalls
    /\ LET r == NextTokenResult(text, lexer_position)
       IN  /\ LexerStep(r)
           /\ panic' = r.panic
           /\ pc' = IF r.panic = "none" THEN "lexer" ELSE "panic"
    /\ calls' = calls + 1
    /\ op' = "next_token"
    /\ ret' = NoRet
    /\ UNCHANGED <<text, position, tokens, expression, parse_calls>>

\* Parser::parse: one turn of its loop (the first turn is the call)
ParserParse ==
    /\ \/ pc = "parse"
       \/ pc \in {"init", "parsed"} /\ parse_calls < MaxParseCalls
    /\ parse_calls' = IF pc = "parse" THEN parse_calls ELSE parse_calls + 1
    /\ LET r == NextTokenResult(text, lexer_position)
           branch == ParseBranch(r.token)
       IN  /\ LexerStep(r)
           /\ panic' = r.panic
           /\ pc' = IF r.panic # "none" THEN "panic"
                    ELSE IF branch = "break" THEN "parsed" ELSE "parse"
           /\ tokens' = IF r.panic = "none" /\ branch = "push"
                        THEN Append(tokens, r.token) ELSE tokens
    /\ op' = "Parser::parse"
    /\ ret' = NoRet
    /\ UNCHANGED <<text, position, expression, calls>>

\* Parser::peek
peek ==
    /\ pc = "parsed"
    /\ \E offset \in (0..MaxOffset) \cup {UsizeMax} :
         \E index \in UsizeAdd(position, offset) :
            /\ panic' = index.panic
            /\ pc' = IF index.panic = "none" THEN pc ELSE "panic"
            /\ ret' = IF index.panic = "none"
                      THEN [offset |-> offset, token |-> PeekAt(tokens, index.val)]
                      ELSE NoRet
    /\ op' = "peek"
    /\ UNCHANGED <<text, lexer_position, syntax_token, position, tokens,
                   expression, calls, parse_calls, lexed>>

\* Parser::current
current ==
    /\ pc = "parsed"
    /\ \E index \in UsizeAdd(position, 0) :
          /\ panic' = index.panic
          /\ pc' = IF index.panic = "none" THEN pc ELSE "panic"
          /\ ret' = IF index.panic = "none"
                    THEN [offset |-> 0, token |-> PeekAt(tokens, index.val)]
                    ELSE NoRet
    /\ op' = "current"
    /\ UNCHANGED <<text, lexer_position, syntax_token, position, tokens,
                   expression, calls, parse_calls, lexed>>

\* ExpressionSyntax::parse storing its cursor in the Parser instead of in
\* the ExpressionSyntax
ExpressionSyntaxParse_MovesParserCursor ==
    /\ pc = "parsed"
    /\ LET r == ExpressionParseResult(expression, tokens)
       IN  /\ expression' = r.expr
           /\ position' = r.expr.position
           /\ panic' = r.panic
           /\ pc' = IF r.panic = "none" THEN "done" ELSE "panic"
    /\ op' = "ExpressionSyntax::parse"
    /\ ret' = NoRet
    /\ UNCHANGED <<text, lexer_position, syntax_token, tokens, calls,
                   parse_calls, lexed>>

\* ExpressionSyntax::parse, as build() calls it after Parser::parse
ExpressionSyntaxParse ==
    /\ pc = "parsed"
    /\ LET r == ExpressionParseResult(expression, tokens)
       IN  /\ expression' = r.expr
           /\ panic' = r.panic
           /\ pc' = IF r.panic = "none" THEN "done" ELSE "panic"
    /\ op' = "ExpressionSyntax::parse"
    /\ ret' = NoRet
    /\ UNCHANGED <<text, lexer_position, syntax_token, position, tokens, calls,
                   parse_calls, lexed>>

Next ==
    \/ next_token
    \/ ParserParse
    \/ peek
    \/ current
    \/ ExpressionSyntaxParse

Spec == Init /\ [][Next]_vars

(* ---------------------------------------------------------------- claims *)
LexerPanics == {"unwrap_none", "str_slice"}
\* the run is build()'s: no direct next_token call, Parser::parse called once
Pipeline == calls = 0 /\ parse_calls <= 1

RECURSIVE DecimalValue(_)
\* the number a digit run denotes
DecimalValue(run) ==
    IF run = << >> THEN 0
    ELSE DecimalValue(SubSeq(run, 1, Len(run) - 1)) * 10 + DigitValue(run[Len(run)])

DigitChar(d) == CASE d = 0 -> "0" [] d = 1 -> "1" [] d = 2 -> "2" [] d = 3 -> "3"
                  [] d = 4 -> "4" [] d = 5 -> "5" [] d = 6 -> "6" [] d = 7 -> "7"
                  [] d = 8 -> "8" [] d = 9 -> "9"

RECURSIVE Format(_)
\* a non-negative number written in decimal
Format(n) == IF n < 10 THEN <<DigitChar(n)>> ELSE Append(Format(n \div 10), DigitChar(n % 10))

IsDigitRun(t) == t # << >> /\ \A i \in 1..Len(t) : t[i] \in Digits
InRange(run) == DecimalValue(run) <= IsizeMax

OperatorType(m) ==
    CASE m = "+" -> "Plus" [] m = "-" -> "Minus" [] m = "*" -> "Star" [] m = "/" -> "Slash"

\* the buffer for '(' a m b ')'
ShapeBuffer(a, m, b) ==
    << SyntaxToken(<<"(">>, "OpenParenthesis", NoValue),
       SyntaxToken(a, "Number", Ok(DecimalValue(a))),
       SyntaxToken(<<m>>, OperatorType(m), NoValue),
       SyntaxToken(b, "Number", Ok(DecimalValue(b))),
       SyntaxToken(<<")">>, "CloseParenthesis", NoValue) >>

\* C1: every Lexer::next_token call, on every text and after any number of
\* calls, completes without a panic (and so leaves a token in the slot).
C1_LexerNeverFails == panic \notin LexerPanics

\* the inputs '(' a m b ')' with a and b in range and m among the middle
\* characters M, each with its parts
ShapedInputs(M) ==
    {[text |-> ShapeText(a, m, b, g, P), a |-> a, m |-> m, b |-> b] :
        a \in {x \in Operands : InRange(x)}, m \in M,
        b \in {x \in Operands : InRange(x)}, g \in Gaps, P \in GapPlaces}

OperatorInputs == ShapedInputs(OperatorChars)
NoOperatorInputs == ShapedInputs(Middles \ OperatorChars)

\* C2: for every input '(' a op b ')' with a and b in range, op one of
\* + - * / and any whitespace between the parts, the pipeline does not abort,
\* Parser::parse leaves the buffer [OpenParen, Number(a), op, Number(b),
\* CloseParen] and ExpressionSyntax::parse yields left = a, operator = op,
\* right = b.
C2_EndToEnd ==
    Pipeline =>
        \A in \in OperatorInputs :
            text = in.text =>
                /\ panic = "none"
                /\ pc \in {"parsed", "done"} => tokens = ShapeBuffer(in.a, in.m, in.b)
                /\ pc = "done" =>
                     /\ expression.left = NumberOperand(DecimalValue(in.a))
                     /\ expression.operator_token = OperatorType(in.m)
                     /\ expression.right = NumberOperand(DecimalValue(in.b))

\* C3: for every input that consists of whitespace characters only,
\* Parser::parse completes (no call of the lexer aborts it) and the token
\* buffer is empty.
C3_WhitespaceOnly ==
    ((\A i \in 1..Len(text) : is_whitespace(text[i])) /\ Pipeline)
        => panic \notin LexerPanics /\ tokens = << >>

\* C4: Parser::peek(offset) never aborts, whatever the offset: it returns the
\* buffer token at index position + offset when that index is inside the
\* buffer and an EndOfFile token with empty text otherwise; Parser::current
\* is peek(0).
C4_PeekTotal ==
    op \in {"peek", "current"} =>
        /\ panic = "none"
        /\ op = "current" => ret.offset = 0
        /\ ret.offset < Len(tokens) - position
              => ret.token = tokens[position + ret.offset + 1]
        /\ ret.offset >= Len(tokens) - position
              => ret.token.token_type = "EndOfFile" /\ ret.token.text = << >>

\* peek was handed the largest usize on a buffer that holds tokens
C4_Witness ==
    /\ op = "peek" /\ ret.offset = UsizeMax /\ Len(tokens) >= 2
    /\ ret.token.token_type = "EndOfFile"

\* C5: when the token buffer holds no '(' token, the failure of
\* ExpressionSyntax::parse is handed back to the caller: the run is not
\* aborted by a panic.
C5_MissingOpenParenRecoverable ==
    (op = "ExpressionSyntax::parse" /\ \A i \in 1..Len(tokens) : tokens[i].text # <<"(">>)
        => panic = "none"

NotPlus(t) == t.token_type # "Plus"

\* C6: for every input '(' a c b ')' with a and b in range and c a character
\* that is no operator, with optional whitespace between the parts: the
\* buffer is ['(', Number(a), Number(b), ')'] (c is dropped),
\* ExpressionSyntax::parse fails with the invalid-operator violation and no
\* expression is produced.
C6_InvalidOperator ==
    Pipeline =>
        \A in \in NoOperatorInputs :
            text = in.text =>
                /\ panic \in {"none", "invalid_operator"}
                /\ pc # "done"
                /\ pc = "parsed" =>
                     tokens = SelectSeq(ShapeBuffer(in.a, "+", in.b), NotPlus)
                /\ op = "ExpressionSyntax::parse" => panic = "invalid_operator"

\* C7: ExpressionSyntax::parse produces an expression only when the token
\* buffer is exactly '(' number operator number ')'.
C7_OnlyFixedGrammar ==
    pc = "done" =>
        /\ Len(tokens) = 5
        /\ tokens[1].token_type = "OpenParenthesis"
        /\ tokens[2].token_type = "Number"
        /\ tokens[3].token_type \in {"Plus", "Minus", "Star", "Slash"}
        /\ tokens[4].token_type = "Number"
        /\ tokens[5].token_type = "CloseParenthesis"

\* the maximal digit runs of the text, as pairs of 1-based character indices
MaximalRuns ==
    {r \in (1..Len(text)) \X (1..Len(text)) :
        /\ r[1] <= r[2]
        /\ \A i \in r[1]..r[2] : text[i] \in Digits
        /\ r[1] = 1 \/ text[r[1] - 1] \notin Digits
        /\ r[2] = Len(text) \/ text[r[2] + 1] \notin Digits}

\* C8: for every maximal digit run of the input whose value is in range,
\* once the cursor has moved past the start of the run the lexer has produced
\* exactly one Number token for it, with the run as its text and the run's
\* value as its successful parse result.
C8_NumberTokenPerRun ==
    \A r \in MaximalRuns :
        LET run == SubSeq(text, r[1], r[2])
        IN  (InRange(run) /\ lexer_position > r[1] - 1) =>
               \E k \in 1..Len(lexed) :
                   /\ lexed[k].start = r[1] - 1
                   /\ lexed[k].end = r[2]
                   /\ lexed[k].token = SyntaxToken(run, "Number", Ok(DecimalValue(run)))
                   /\ \A j \in 1..Len(lexed) :
                         (j # k /\ lexed[j].token.token_type = "Number")
                            => lexed[j].start \notin (r[1] - 1)..(r[2] - 1)

\* a Number token of the lexer whose text is a digit run and whose value
\* parsed
RoundTripTokens ==
    {lexed[k].token : k \in {j \in 1..Len(lexed) :
        /\ lexed[j].token.token_type = "Number"
        /\ IsDigitRun(lexed[j].token.text)
        /\ lexed[j].token.value.tag = "Ok"}}

\* C9 as stated: for every digit run in range, the value of its Number
\* token formatted in decimal is the run, character for character.
C9_RoundTripAnyRun ==
    \A t \in RoundTripTokens : Format(t.value.val) = t.text

\* C9 amended: for every Number token whose text is a digit run in range
\* with no superfluous leading zero (a single digit, or a run that does not
\* start with 0), the value of the token formatted in decimal is the token's
\* text, character for character.
C9_RoundTrip ==
    \A t \in RoundTripTokens :
        (Len(t.text) = 1 \/ t.text[1] # "0") => Format(t.value.val) = t.text

\* a two-digit run without a leading zero was lexed and parsed
C9_Witness ==
    \E t \in RoundTripTokens : Len(t.text) = 2 /\ t.text[1] # "0" /\ t.value.val >= 10

Unrecognized(c) ==
    c \notin WhitespaceChars \cup NumericChars \cup OperatorChars \cup ParenChars
        \cup {NUL}

RemoveAt(t, i) == SubSeq(t, 1, i - 1) \o SubSeq(t, i + 1, Len(t))

\* C10: a next_token call at an unrecognized character leaves a Bad token
\* with empty text and moves the cursor by one; the call after it ends as
\* the call at the same cursor would on the text without that character
\* (the same token, no abort unless that one aborts too).
C10_BadTokenResumes ==
    \A k \in 1..Len(lexed) :
        LET s == lexed[k].start
        IN  (s < Len(text) /\ Unrecognized(text[s + 1])) =>
               LET without == NextTokenResult(RemoveAt(text, s + 1), s)
               IN  /\ lexed[k].token = SyntaxToken(<< >>, "BadToken", NoValue)
                   /\ lexed[k].end = s + 1
                   /\ k < Len(lexed) =>
                        /\ without.panic = "none"
                        /\ lexed[k + 1].start = s + 1
                        /\ lexed[k + 1].token = without.token
                   /\ (k = Len(lexed) /\ panic \in LexerPanics) => without.panic = panic

\* the first Parser::parse call of build() has returned
Parsed == Pipeline /\ parse_calls = 1 /\ pc \in {"parsed", "done"}

\* 0-based index of the first '(' token of the buffer
FirstOpen ==
    CHOOSE i \in 0..Len(tokens) :
        /\ i < Len(tokens) => tokens[i + 1].text = <<"(">>
        /\ \A j \in 1..i : tokens[j].text # <<"(">>

\* the buffer indices (1-based) of the Number tokens, in order
NumberIndices == SelectSeq([i \in 1..Len(tokens) |-> i],
                           LAMBDA i : tokens[i].token_type = "Number")

\* C11: a digit run whose value does not fit still yields one Number token
\* carrying the parse failure; lexing is not aborted after it, Parser::parse
\* runs to the end of the input and stores the token; a number-parse failure
\* is raised only by ExpressionSyntax::parse, and only for the token it
\* selected as left or right operand.
C11_OverflowDeferred ==
    /\ \A r \in MaximalRuns :
          LET run == SubSeq(text, r[1], r[2])
              token == SyntaxToken(run, "Number", Err("PosOverflow"))
          IN  (~InRange(run) /\ lexer_position > r[1] - 1) =>
                 /\ \E k \in 1..Len(lexed) :
                       /\ lexed[k].start = r[1] - 1
                       /\ lexed[k].end = r[2]
                       /\ lexed[k].token = token
                 /\ panic \notin LexerPanics
                 /\ Parsed =>
                       /\ lexer_position > Len(text)
                       /\ \E i \in 1..Len(tokens) : tokens[i] = token
    /\ panic = "parse_number" =>
          /\ op = "ExpressionSyntax::parse"
          /\ FirstOpen < Len(NumberIndices)
          /\ LET left == NumberIndices[FirstOpen + 1]
             IN  \/ tokens[left].value.tag = "Err"
                 \/ /\ FirstOpen + 3 < Len(tokens)
                    /\ tokens[FirstOpen + 4].token_type = "Number"
                    /\ tokens[FirstOpen + 4].value.tag = "Err"

RECURSIVE NumericPrefix(_)
\* how many characters at the head of s are numeric
NumericPrefix(s) ==
    IF s # << >> /\ Head(s) \in NumericChars THEN 1 + NumericPrefix(Tail(s)) ELSE 0

RECURSIVE SourceTokens(_)
\* the tokens of a whole text in source order, without the whitespace, the
\* unrecognized characters and the end of file: a character-by-character
\* reading of the token classes
SourceTokens(s) ==
    IF s = << >> THEN << >>
    ELSE IF Head(s) \in NumericChars
    THEN LET n == NumericPrefix(s)
             run == SubSeq(s, 1, n)
         IN  <<SyntaxToken(run, "Number", ParseIsize(run))>>
                 \o SourceTokens(SubSeq(s, n + 1, Len(s)))
    ELSE IF Head(s) \in OperatorChars \cup ParenChars
    THEN <<SingleToken(Head(s))>> \o SourceTokens(Tail(s))
    ELSE SourceTokens(Tail(s))

\* C12: after Parser::parse the buffer is, in source order, the tokens of
\* the whole text (also of a text with U+0000 before its end) without the
\* Whitespace and Bad tokens and without EndOfFile; the buffer never holds a
\* token of kind Whitespace, Bad or EndOfFile.
C12_ParseDrains ==
    /\ \A i \in 1..Len(tokens) :
          tokens[i].token_type \notin {"WhiteSpace", "BadToken", "EndOfFile"}
    /\ Parsed => tokens = SourceTokens(text)

\* the operations that only read the Parser
Readers == {"peek", "current", "ExpressionSyntax::parse"}

\* C13: once Parser::parse has completed, Parser::peek, Parser::current and
\* ExpressionSyntax::parse leave the token buffer, the parser cursor and the
\* lexer state (text, cursor, current-token slot) unchanged, whether they
\* return or panic.
C13_BufferImmutable ==
    [][op' \in Readers =>
          UNCHANGED <<tokens, position, text, lexer_position, syntax_token>>]_vars

\* ExpressionSyntax::parse has failed after moving its own cursor past the
\* left operand, on a buffer of several tokens
C13_Witness ==
    /\ op = "ExpressionSyntax::parse"
    /\ panic \in {"invalid_operator", "index_oob", "invalid_number"}
    /\ expression.position >= 2
    /\ Len(tokens) >= 2
    /\ position = 0

RECURSIVE Consumed(_)
\* what the claim counts for a sequence of completed next_token calls: the
\* text length of each token that is not Bad, one for each Bad token
Consumed(ls) ==
    IF ls = << >> THEN 0
    ELSE (IF Head(ls).token.token_type = "BadToken" THEN 1
          ELSE Len(Head(ls).token.text)) + Consumed(Tail(ls))

\* no completed next_token call has produced EndOfFile
NoEndOfFileYet ==
    \A k \in 1..Len(lexed) : lexed[k].token.token_type # "EndOfFile"

\* C14: as long as no next_token call has produced EndOfFile (and none has
\* panicked), the lexer cursor equals the sum of the text lengths of the
\* non-Bad tokens produced so far plus the number of Bad tokens, each call
\* starts where the one before ended, and the text of each non-Bad token is
\* the input span between the cursor before and after its call.
C14_Consumption ==
    (NoEndOfFileYet /\ panic \notin LexerPanics) =>
        /\ lexer_position = Consumed(lexed)
        /\ \A k \in 1..Len(lexed) :
              /\ lexed[k].start = (IF k = 1 THEN 0 ELSE lexed[k - 1].end)
              /\ lexed[k].token.token_type # "BadToken" =>
                    lexed[k].token.text =
                        SubSeq(text, lexed[k].start + 1, lexed[k].end)

\* C15: EndOfFile is produced exactly at the end of the input and is
\* absorbing: a next_token call yields EndOfFile if and only if it starts
\* with the cursor at or past the length of the text, it then advances the
\* cursor by one, every call after an EndOfFile yields EndOfFile again, and
\* a call that starts at or past the end does not fail.
C15_EndOfFileAbsorbing ==
    /\ \A k \in 1..Len(lexed) :
          LET eof == lexed[k].token.token_type = "EndOfFile"
          IN  /\ eof <=> lexed[k].start >= Len(text)
              /\ eof => lexed[k].end = lexed[k].start + 1
              /\ (k > 1 /\ lexed[k - 1].token.token_type = "EndOfFile") => eof
    /\ panic \in LexerPanics => lexer_position < Len(text)

\* C16: the pipeline of build() runs to completion: the loop of
\* Parser::parse is never aborted, every next_token call advances the
\* cursor by at least one, the loop returns at an EndOfFile after at most
\* one call per character and one more, and a run ends only in
\* ExpressionSyntax::parse, with an expression or a failure.
C16_RunsToCompletion ==
    Pipeline =>
        /\ pc = "panic" => op = "ExpressionSyntax::parse"
        /\ \A k \in 1..Len(lexed) : lexed[k].end > lexed[k].start
        /\ Len(lexed) <= Len(text) + 1
        /\ parse_calls = 1 /\ pc \in {"parsed", "done"} =>
              /\ Len(lexed) >= 1
              /\ lexed[Len(lexed)].token.token_type = "EndOfFile"

\* the failures of the steps of ExpressionSyntax::parse after the left
\* operand: the operator step and the right-operand step
LaterStepFailures == {"invalid_operator", "index_oob", "invalid_number"}

\* C17: after ExpressionSyntax::parse has acted on a buffer with a '(' token
\* at index k: without a Number token at ordinal k among the Number tokens
\* it has failed at the left operand, not at a later step; with a Number
\* token at that ordinal that carries a parse failure it has failed with the
\* number failure.
C17_LeftOperandFailures ==
    (op = "ExpressionSyntax::parse" /\ FirstOpen < Len(tokens)) =>
        /\ FirstOpen >= Len(NumberIndices) =>
              panic \notin {"none"} \cup LaterStepFailures
        /\ (/\ FirstOpen < Len(NumberIndices)
            /\ tokens[NumberIndices[FirstOpen + 1]].value.tag = "Err") =>
              panic = "parse_number"

\* C18: when ExpressionSyntax::parse has succeeded, with k the (0-based)
\* index of the first '(' token, the left operand is the value of the Number
\* token at index k+1, the operator is that of the token at index k+2 and
\* the right operand is the value of the Number token at index k+3.
C18_ConsecutiveParts ==
    pc = "done" =>
        /\ FirstOpen + 3 < Len(tokens)
        /\ LET left == tokens[FirstOpen + 2]
               operator == tokens[FirstOpen + 3]
               right == tokens[FirstOpen + 4]
           IN  /\ left.token_type = "Number"
               /\ left.value.tag = "Ok"
               /\ expression.left = NumberOperand(left.value.val)
               /\ expression.operator_token = OperatorOf(operator.text)
               /\ right.token_type = "Number"
               /\ right.value.tag = "Ok"
               /\ expression.right = NumberOperand(right.value.val)

\* C19: ExpressionSyntax::parse never reads the buffer at an index at or
\* beyond its length: on a buffer with a '(' token, truncated ones ("(1",
\* "(1+") included, it ends with an expression, the invalid-operator failure
\* or a number failure, not with the out-of-range access.
C19_IndicesInside ==
    (op = "ExpressionSyntax::parse" /\ FirstOpen < Len(tokens)) =>
        panic # "index_oob"

\* the index in `lexed` of the first call that produced EndOfFile
FirstEndOfFile ==
    CHOOSE e \in 1..Len(lexed) :
        /\ lexed[e].token.token_type = "EndOfFile"
        /\ \A k \in 1..(e - 1) : lexed[k].token.token_type # "EndOfFile"

IsPushed(t) == ParseBranch(t) = "push"

\* the buffer as the first Parser::parse call left it: the tokens it lexed
\* before its EndOfFile, those it skips left out
FirstParseBuffer ==
    SelectSeq([k \in 1..(FirstEndOfFile - 1) |-> lexed[k].token], IsPushed)

\* C20: a Parser::parse call after the first one has completed (the lexer
\* not reset) does not fail and leaves the token buffer as the first call
\* left it.
C20_ReparseNoOp ==
    (calls = 0 /\ parse_calls >= 2) =>
        /\ panic \notin LexerPanics
        /\ tokens = FirstParseBuffer
====
